---------------------------- MODULE Spec2Model ----------------------------
(***************************************************************************)
(* Bezier-rs, src/bezier/lookup.rs: evaluation, t-value resolution, the    *)
(* euclidean-to-parametric bisection, lookup tables, length and project.   *)
(*                                                                         *)
(* f64 values are modelled in fixed point.  A t-value, a ratio, an error   *)
(* or a Bernstein weight is an integer number of 1/Scale units; a          *)
(* coordinate or a length is an integer number of 1/CoordScale units.      *)
(* Every arithmetic operation rounds its exact result to the grid, ties to *)
(* even, as the f64 operation rounds to the nearest representable value.   *)
(* NaN and the two infinities are kept as distinct values.  The smallest    *)
(* positive error of the grid, 1, stands for an error at the resolution of *)
(* f64.  Lengths are summed from up to 1000 rounded chords, so a measured  *)
(* fraction is accurate to MeasureSlack only; the curves the search is run *)
(* on (SearchCurves) are large enough on the grid for that.                *)
(***************************************************************************)
EXTENDS Integers, Sequences, FiniteSets, TLC

VARIABLES
    curve,          \* self: the Bezier the operation is called on
    op,             \* the public function that was called
    pc,             \* position: "idle", "lut", "search", "done", "panicked"
    tvalue,         \* the TValue being resolved
    steps,          \* compute_lookup_table: steps
    tvalue_type,    \* compute_lookup_table: tvalue_type
    table,          \* compute_lookup_table: the points collected so far
    point,          \* project: point
    critical,       \* project: what normals_to_point returned
    euclidean_t,    \* euclidean_to_parametric_with_total_length: euclidean_t
    error,          \* ... error
    total_length,   \* ... total_length
    low,            \* ... low
    mid,            \* ... mid
    high,           \* ... high
    subdivisions,   \* ... subdivisions_proportional_to_likely_length
    measurements,   \* number of trim-and-measure iterations run by the search
    ret_t,          \* the parametric t-value returned
    ret_point       \* the point returned by evaluate

vars == <<curve, op, pc, tvalue, steps, tvalue_type, table, point, critical,
          euclidean_t, error, total_length, low, mid, high, subdivisions,
          measurements, ret_t, ret_point>>

call_vars   == <<op, tvalue, steps, tvalue_type, point, critical>>
search_vars == <<euclidean_t, error, total_length, low, mid, high, subdivisions, measurements>>

---------------------------------------------------------------------------
(* Bounds of the model. *)

\* fractional bits of a t-value, ratio, error or weight
FracBits == 12
\* fractional bits of a coordinate or length
CoordBits == 3
\* largest steps value handed to compute_lookup_table
MaxSteps == 4
\* longest list normals_to_point returns
MaxCritical == 2
\* the search is followed for at most this many iterations
MaxMeasurements == 18

Scale == 2 ^ FracBits
CoordScale == 2 ^ CoordBits

---------------------------------------------------------------------------
(* f64 arithmetic on the grid. *)

PosInf == 2 ^ 30
NegInf == 0 - (2 ^ 30)
NaN == (2 ^ 30) + 1

IsNaN(x) == x = NaN
IsFinite(x) == x > NegInf /\ x < PosInf

Abs(x) == IF x < 0 THEN 0 - x ELSE x
Sign(x) == IF x < 0 THEN 0 - 1 ELSE IF x > 0 THEN 1 ELSE 0

\* n / d for d > 0, rounded to the nearest integer, ties to even
RoundDiv(n, d) ==
    LET q == n \div d
        r == n % d
    IN  IF 2 * r < d THEN q
        ELSE IF 2 * r > d THEN q + 1
        ELSE IF q % 2 = 0 THEN q ELSE q + 1

\* n / d for d > 0, rounded to the nearest integer, ties away from zero (f64::round)
RoundHalfAway(n, d) ==
    LET a == Abs(n)
        q == a \div d
        r == a % d
        m == IF 2 * r >= d THEN q + 1 ELSE q
    IN  Sign(n) * m

\* a < b on f64: false when either side is NaN
FLt(a, b) == ~IsNaN(a) /\ ~IsNaN(b) /\ a < b
FLe(a, b) == ~IsNaN(a) /\ ~IsNaN(b) /\ a <= b

FAbs(a) == IF IsNaN(a) THEN NaN ELSE Abs(a)

\* a - b on f64
FSub(a, b) ==
    IF IsNaN(a) \/ IsNaN(b) THEN NaN
    ELSE IF ~IsFinite(a) THEN (IF a = b THEN NaN ELSE a)
    ELSE IF ~IsFinite(b) THEN 0 - b
    ELSE a - b

\* a / b on f64, operands and quotient on the same grid of 1/unit
FDivOn(unit, a, b) ==
    IF IsNaN(a) \/ IsNaN(b) THEN NaN
    ELSE IF ~IsFinite(a) THEN (IF ~IsFinite(b) THEN NaN
                               ELSE IF b < 0 THEN 0 - a ELSE a)
    ELSE IF ~IsFinite(b) THEN 0
    ELSE IF b = 0 THEN (IF a = 0 THEN NaN ELSE IF a > 0 THEN PosInf ELSE NegInf)
    ELSE Sign(b) * RoundDiv(a * unit, Abs(b))

\* the product of two values of the t-grid, on the t-grid
TMul(a, b) == RoundDiv(a * b, Scale)

\* the product of a weight (t-grid) and a coordinate, on the coordinate grid
CMul(w, c) == RoundDiv(w * c, Scale)

\* the integer nearest to the square root of n >= 0
RECURSIVE SqrtIter(_, _)
SqrtIter(n, x) ==
    LET y == (x + (n \div x)) \div 2
    IN  IF y >= x THEN x ELSE SqrtIter(n, y)

Sqrt(n) ==
    IF n = 0 THEN 0
    ELSE LET r == SqrtIter(n, n)
         IN  IF n - r * r > r THEN r + 1 ELSE r

---------------------------------------------------------------------------
(* DVec2 *)

\* a point given in whole coordinate units
Pt(x, y) == <<x * CoordScale, y * CoordScale>>

VAdd(a, b) == <<a[1] + b[1], a[2] + b[2]>>
VSub(a, b) == <<a[1] - b[1], a[2] - b[2]>>
\* weight * vector
VScale(w, v) == <<CMul(w, v[1]), CMul(w, v[2])>>
VLength(v) == Sqrt(v[1] * v[1] + v[2] * v[2])
\* squared distance, in units of 1/CoordScale^2 (exact: only ever compared)
distance_squared(a, b) ==
    LET d == VSub(a, b) IN d[1] * d[1] + d[2] * d[2]
\* DVec2::lerp
lerp(a, b, s) == VAdd(a, VScale(s, VSub(b, a)))

---------------------------------------------------------------------------
(* Bezier *)

from_linear(p1, p2) ==
    [start |-> p1, end |-> p2, handles |-> [kind |-> "Linear"]]
from_quadratic(p1, p2, p3) ==
    [start |-> p1, end |-> p3, handles |-> [kind |-> "Quadratic", handle |-> p2]]
from_cubic(p1, p2, p3, p4) ==
    [start |-> p1, end |-> p4,
     handles |-> [kind |-> "Cubic", handle_start |-> p2, handle_end |-> p3]]

\* unrestricted_parametric_evaluate with the factor 2 of the quadratic's middle term and
\* the factors 3 of the cubic's middle terms left out
evaluate_without_binomials(self, t) ==
    LET t_squared == TMul(t, t)
        one_minus_t == Scale - t
        squared_one_minus_t == TMul(one_minus_t, one_minus_t)
    IN  CASE self.handles.kind = "Linear" -> lerp(self.start, self.end, t)
          [] self.handles.kind = "Quadratic" ->
                VAdd(VAdd(VScale(squared_one_minus_t, self.start),
                          VScale(TMul(one_minus_t, t), self.handles.handle)),
                     VScale(t_squared, self.end))
          [] self.handles.kind = "Cubic" ->
                LET t_cubed == TMul(t_squared, t)
                    cubed_one_minus_t == TMul(squared_one_minus_t, one_minus_t)
                IN  VAdd(VAdd(VAdd(VScale(cubed_one_minus_t, self.start),
                                   VScale(TMul(squared_one_minus_t, t),
                                          self.handles.handle_start)),
                              VScale(TMul(one_minus_t, t_squared),
                                     self.handles.handle_end)),
                         VScale(t_cubed, self.end))

\* Bezier::unrestricted_parametric_evaluate
unrestricted_parametric_evaluate(self, t) ==
    LET t_squared == TMul(t, t)
        one_minus_t == Scale - t
        squared_one_minus_t == TMul(one_minus_t, one_minus_t)
    IN  CASE self.handles.kind = "Linear" -> lerp(self.start, self.end, t)
          [] self.handles.kind = "Quadratic" ->
                VAdd(VAdd(VScale(squared_one_minus_t, self.start),
                          VScale(TMul(2 * one_minus_t, t), self.handles.handle)),
                     VScale(t_squared, self.end))
          [] self.handles.kind = "Cubic" ->
                LET t_cubed == TMul(t_squared, t)
                    cubed_one_minus_t == TMul(squared_one_minus_t, one_minus_t)
                IN  VAdd(VAdd(VAdd(VScale(cubed_one_minus_t, self.start),
                                   VScale(TMul(3 * squared_one_minus_t, t),
                                          self.handles.handle_start)),
                              VScale(TMul(3 * one_minus_t, t_squared),
                                     self.handles.handle_end)),
                         VScale(t_cubed, self.end))

\* the point of the quadratic's polar form at (a, b); (t, t) is the point at t
Blossom2(self, a, b) ==
    lerp(lerp(self.start, self.handles.handle, a),
         lerp(self.handles.handle, self.end, a), b)

\* the point of the cubic's polar form at (a, b, c)
Blossom3(self, a, b, c) ==
    LET p01 == lerp(self.start, self.handles.handle_start, a)
        p12 == lerp(self.handles.handle_start, self.handles.handle_end, a)
        p23 == lerp(self.handles.handle_end, self.end, a)
    IN  lerp(lerp(p01, p12, b), lerp(p12, p23, b), c)

\* Bezier::trim on two parametric values: the sub-curve over [t1, t2], same degree
trim(self, t1, t2) ==
    CASE self.handles.kind = "Linear" ->
            from_linear(lerp(self.start, self.end, t1), lerp(self.start, self.end, t2))
      [] self.handles.kind = "Quadratic" ->
            from_quadratic(Blossom2(self, t1, t1), Blossom2(self, t1, t2),
                           Blossom2(self, t2, t2))
      [] self.handles.kind = "Cubic" ->
            from_cubic(Blossom3(self, t1, t1, t1), Blossom3(self, t1, t1, t2),
                       Blossom3(self, t1, t2, t2), Blossom3(self, t2, t2, t2))

\* consts.rs, as documented on length and compute_lookup_table
DEFAULT_LENGTH_SUBDIVISIONS == 1000
DEFAULT_LUT_STEP_SIZE == 10
\* consts.rs: 0.001
DEFAULT_EUCLIDEAN_ERROR_BOUND == RoundDiv(Scale, 1000)

\* `t as f64 / steps as f64`
StepRatio(t, n) == FDivOn(Scale, t, n)

\* compute_lookup_table(Some(n), Some(TValueType::Parametric)) for n >= 1, as length uses it
ParametricLookupTable(self, n) ==
    [i \in 1..(n + 1) |-> unrestricted_parametric_evaluate(self, StepRatio(i - 1, n))]

\* lookup_table.windows(2).map(|points| (points[1] - points[0]).length()).sum() over
\* the windows lo .. hi - 1
RECURSIVE SumWindows(_, _, _)
SumWindows(lookup_table, lo, hi) ==
    IF hi <= lo THEN 0
    ELSE IF hi = lo + 1
         THEN VLength(VSub(lookup_table[hi], lookup_table[lo]))
         ELSE LET m == (lo + hi) \div 2
              IN  SumWindows(lookup_table, lo, m) + SumWindows(lookup_table, m, hi)

\* Bezier::length(Some(num_subdivisions))
length(self, num_subdivisions) ==
    IF self.handles.kind = "Linear"
    THEN VLength(VSub(self.start, self.end))
    ELSE SumWindows(ParametricLookupTable(self, num_subdivisions), 1, num_subdivisions + 1)

\* (0.0..1.).contains(&t): the half-open range
contains_half_open(t) == FLe(0, t) /\ FLt(t, Scale)

\* (0.0..=1.).contains(&t)
Contains(t) == FLe(0, t) /\ FLe(t, Scale)

\* utils::f64_compare: whether two values are within max_abs_diff of one another
f64_compare(f1, f2, max_abs_diff) == FLt(FAbs(FSub(f1, f2)), max_abs_diff)

\* result_likely_closer_to_start
result_likely_closer_to_start(et) == FLt(et, Scale \div 2)

\* subdivisions_proportional_to_likely_length
subdivisions_proportional_to_likely_length(et) ==
    LET r == RoundHalfAway(Abs(et - (Scale \div 2)) * DEFAULT_LENGTH_SUBDIVISIONS, Scale)
    IN  IF r < 1 THEN 1 ELSE r

\* current_euclidean_t of one iteration of the search, for the tested value m
current_euclidean_t(self, m, et, n, tl) ==
    LET current_length ==
            IF result_likely_closer_to_start(et)
            THEN length(trim(self, 0, m), n)
            ELSE FSub(tl, length(trim(self, m, Scale), n))
    IN  FDivOn(Scale, current_length, tl)

\* Bezier::project, the loop over the critical points from index i on
RECURSIVE project_loop(_, _, _, _, _, _)
project_loop(self, p, crit, i, closest, min_dist_squared) ==
    IF i > Len(crit)
    THEN IF distance_squared(unrestricted_parametric_evaluate(self, Scale), p) < min_dist_squared
         THEN Scale
         ELSE closest
    ELSE LET time == crit[i]
             distance == distance_squared(unrestricted_parametric_evaluate(self, time), p)
         IN  IF distance < min_dist_squared
             THEN project_loop(self, p, crit, i + 1, time, distance)
             ELSE project_loop(self, p, crit, i + 1, closest, min_dist_squared)

\* project with <= for <: the candidate examined last wins a tie
RECURSIVE project_loop_last_wins(_, _, _, _, _, _)
project_loop_last_wins(self, p, crit, i, closest, min_dist_squared) ==
    IF i > Len(crit)
    THEN IF distance_squared(unrestricted_parametric_evaluate(self, Scale), p) <= min_dist_squared
         THEN Scale
         ELSE closest
    ELSE LET time == crit[i]
             distance == distance_squared(unrestricted_parametric_evaluate(self, time), p)
         IN  IF distance <= min_dist_squared
             THEN project_loop_last_wins(self, p, crit, i + 1, time, distance)
             ELSE project_loop_last_wins(self, p, crit, i + 1, closest, min_dist_squared)

project_last_wins(self, p, crit) ==
    project_loop_last_wins(self, p, crit, 1, 0,
                           distance_squared(unrestricted_parametric_evaluate(self, 0), p))

\* Bezier::project, given what normals_to_point returned
project(self, p, crit) ==
    project_loop(self, p, crit, 1, 0,
                 distance_squared(unrestricted_parametric_evaluate(self, 0), p))

---------------------------------------------------------------------------
(* Inputs *)

\* n / d as a t-value
Frac(n, d) == RoundDiv(n * Scale, d)

NoneValue == 0 - 1

Line1      == from_linear(Pt(0, 0), Pt(2000, 0))
Line345    == from_linear(Pt(0, 0), Pt(300, 400))
Degenerate == from_linear(Pt(5, 5), Pt(5, 5))
QuadMono   == from_quadratic(Pt(0, 0), Pt(500, 0), Pt(2000, 0))
QuadBack   == from_quadratic(Pt(0, 0), Pt(2000, 0), Pt(1000, 0))
QuadTest   == from_quadratic(Pt(3, 5), Pt(14, 3), Pt(19, 14))
CubicTest  == from_cubic(Pt(3, 5), Pt(14, 3), Pt(19, 14), Pt(30, 21))
QuadCorner == from_quadratic(Pt(0, 0), Pt(0, 100), Pt(100, 100))
CubicFlat  == from_cubic(Pt(0 - 50, 0 - 50), Pt(0 - 50, 0 - 50), Pt(50, 0 - 50), Pt(50, 0 - 50))

\* the curves the euclidean conversions are run on
SearchCurves == {Line1, Line345, Degenerate, QuadMono, QuadBack}
Curves == SearchCurves \cup {QuadTest, CubicTest, QuadCorner, CubicFlat}

Payloads == {0 - Frac(1, 4), 0, Frac(1, 4), Frac(1, 2), Scale, Scale + 1, NaN}
Ratios == {0, Frac(1, 10), Frac(2, 5), Frac(1, 2), Frac(3, 5), Scale}
Errors == {0, 1, DEFAULT_EUCLIDEAN_ERROR_BOUND, Frac(3, 4)}

TValues ==
    [type : {"Parametric", "Euclidean"}, t : Payloads, error : {0}]
        \cup [type : {"EuclideanWithinError"}, t : Payloads, error : Errors \ {0}]

StepsOptions == (0..MaxSteps) \cup {NoneValue}
TypeOptions == {"Parametric", "Euclidean", "None"}

Points == {Pt(0, 0), Pt(100, 100), Pt(0 - 50, 150), Pt(0, 0 - 50), Pt(10, 9)}
Times == {0, Frac(1, 4), Frac(1, 2), Frac(3, 4), Scale}
RECURSIVE SeqsUpTo(_, _)
SeqsUpTo(S, n) ==
    IF n = 0 THEN {<<>>}
    ELSE LET shorter == SeqsUpTo(S, n - 1)
         IN  shorter \cup {Append(q, x) : q \in shorter, x \in S}
CriticalLists == SeqsUpTo(Times, MaxCritical)

---------------------------------------------------------------------------
(* Operations *)

Init ==
    /\ curve \in Curves
    /\ op = "none"
    /\ pc = "idle"
    /\ tvalue = [type |-> "Parametric", t |-> 0, error |-> 0]
    /\ steps = 0
    /\ tvalue_type = "Parametric"
    /\ table = <<>>
    /\ point = Pt(0, 0)
    /\ critical = <<>>
    /\ euclidean_t = 0
    /\ error = 0
    /\ total_length = 0
    /\ low = 0
    /\ mid = 0
    /\ high = 0
    /\ subdivisions = 0
    /\ measurements = 0
    /\ ret_t = 0
    /\ ret_point = Pt(0, 0)

\* a failed assert!: the call unwinds
Panic ==
    /\ pc' = "panicked"
    /\ UNCHANGED <<table, ret_t, ret_point>>

\* the parametric value t is handed back to the function o that asked for it
Return(o, t) ==
    /\ ret_t' = t
    /\ CASE o = "evaluate" ->
                /\ pc' = "done"
                /\ ret_point' = unrestricted_parametric_evaluate(curve, t)
                /\ UNCHANGED table
         [] o = "compute_lookup_table" ->
                /\ pc' = "lut"
                /\ ret_point' = unrestricted_parametric_evaluate(curve, t)
                /\ table' = Append(table, unrestricted_parametric_evaluate(curve, t))
         [] OTHER ->
                /\ pc' = "done"
                /\ UNCHANGED <<table, ret_point>>

\* Convert with the two early exits in the other order
convert_end_first(o, et, err, tl) ==
    /\ euclidean_t' = et
    /\ error' = err
    /\ total_length' = tl
    /\ measurements' = 0
    /\ IF FLt(FSub(Scale, et), err)
       THEN Return(o, Scale) /\ UNCHANGED <<low, mid, high, subdivisions>>
       ELSE IF FLt(et, err)
       THEN Return(o, 0) /\ UNCHANGED <<low, mid, high, subdivisions>>
       ELSE /\ low' = 0
            /\ mid' = Scale \div 2
            /\ high' = Scale
            /\ subdivisions' = subdivisions_proportional_to_likely_length(et)
            /\ pc' = "search"
            /\ UNCHANGED <<table, ret_t, ret_point>>

\* Bezier::euclidean_to_parametric_with_total_length, up to the loop
Convert(o, et, err, tl) ==
    /\ euclidean_t' = et
    /\ error' = err
    /\ total_length' = tl
    /\ measurements' = 0
    /\ IF FLt(et, err)
       THEN Return(o, 0) /\ UNCHANGED <<low, mid, high, subdivisions>>
       ELSE IF FLt(FSub(Scale, et), err)
       THEN Return(o, Scale) /\ UNCHANGED <<low, mid, high, subdivisions>>
       ELSE /\ low' = 0
            /\ mid' = Scale \div 2
            /\ high' = Scale
            /\ subdivisions' = subdivisions_proportional_to_likely_length(et)
            /\ pc' = "search"
            /\ UNCHANGED <<table, ret_t, ret_point>>

\* Bezier::t_value_to_parametric
t_value_to_parametric(o, t) ==
    IF ~Contains(t.t)
    THEN Panic /\ UNCHANGED search_vars
    ELSE CASE t.type = "Parametric" ->
                Return(o, t.t) /\ UNCHANGED search_vars
           [] t.type = "Euclidean" ->
                Convert(o, t.t, DEFAULT_EUCLIDEAN_ERROR_BOUND,
                        length(curve, DEFAULT_LENGTH_SUBDIVISIONS))
           [] t.type = "EuclideanWithinError" ->
                Convert(o, t.t, t.error, length(curve, DEFAULT_LENGTH_SUBDIVISIONS))

\* Bezier::evaluate
Evaluate ==
    /\ pc = "idle"
    /\ \E t \in TValues :
        /\ t.type # "Parametric" => curve \in SearchCurves
        /\ op' = "evaluate"
        /\ tvalue' = t
        /\ t_value_to_parametric("evaluate", t)
    /\ UNCHANGED <<curve, steps, tvalue_type, point, critical>>

\* Bezier::euclidean_to_parametric
EuclideanToParametric ==
    /\ pc = "idle"
    /\ curve \in SearchCurves
    /\ LET total == length(curve, DEFAULT_LENGTH_SUBDIVISIONS)
       IN  \E ratio \in Ratios, err \in Errors :
                /\ op' = "euclidean_to_parametric"
                /\ Convert("euclidean_to_parametric", ratio, err, total)
    /\ UNCHANGED <<curve, tvalue, steps, tvalue_type, point, critical>>

\* Bezier::euclidean_to_parametric_with_total_length, called with a length of the caller's
EuclideanToParametricWithTotalLength ==
    /\ pc = "idle"
    /\ curve \in SearchCurves
    /\ LET total == length(curve, DEFAULT_LENGTH_SUBDIVISIONS)
       IN  \E et \in Ratios, err \in Errors, tl \in {0, 3 * total} :
                /\ op' = "euclidean_to_parametric_with_total_length"
                /\ Convert("euclidean_to_parametric_with_total_length", et, err, tl)
    /\ UNCHANGED <<curve, tvalue, steps, tvalue_type, point, critical>>

\* Bisect with the two halves exchanged: high moves when the measured fraction is too small
bisect_wrong_half ==
    /\ pc = "search"
    /\ FLt(low, high)
    /\ measurements < MaxMeasurements
    /\ LET m == RoundDiv(low + high, 2)
           cur == current_euclidean_t(curve, m, euclidean_t, subdivisions, total_length)
       IN  /\ mid' = m
           /\ measurements' = measurements + 1
           /\ IF f64_compare(cur, euclidean_t, error)
              THEN Return(op, m) /\ UNCHANGED <<low, high>>
              ELSE /\ IF FLt(cur, euclidean_t)
                      THEN high' = m /\ UNCHANGED low
                      ELSE low' = m /\ UNCHANGED high
                   /\ UNCHANGED <<pc, table, ret_t, ret_point>>
    /\ UNCHANGED <<curve, euclidean_t, error, total_length, subdivisions>>
    /\ UNCHANGED call_vars

\* one iteration of the while loop
Bisect ==
    /\ pc = "search"
    /\ FLt(low, high)
    /\ measurements < MaxMeasurements
    /\ LET m == RoundDiv(low + high, 2)
           cur == current_euclidean_t(curve, m, euclidean_t, subdivisions, total_length)
       IN  /\ mid' = m
           /\ measurements' = measurements + 1
           /\ IF f64_compare(cur, euclidean_t, error)
              THEN Return(op, m) /\ UNCHANGED <<low, high>>
              ELSE /\ IF FLt(cur, euclidean_t)
                      THEN low' = m /\ UNCHANGED high
                      ELSE high' = m /\ UNCHANGED low
                   /\ UNCHANGED <<pc, table, ret_t, ret_point>>
    /\ UNCHANGED <<curve, euclidean_t, error, total_length, subdivisions>>
    /\ UNCHANGED call_vars

\* the while loop ends because low < high no longer holds
Collapse ==
    /\ pc = "search"
    /\ ~FLt(low, high)
    /\ Return(op, mid)
    /\ UNCHANGED <<curve, search_vars>>
    /\ UNCHANGED call_vars

\* Bezier::compute_lookup_table, up to the iterator
ComputeLookupTable ==
    /\ pc = "idle"
    /\ \E s \in StepsOptions, ty \in TypeOptions :
        /\ (ty = "Euclidean") => curve \in SearchCurves
        /\ steps' = IF s = NoneValue THEN DEFAULT_LUT_STEP_SIZE ELSE s
        /\ tvalue_type' = IF ty = "None" THEN "Parametric" ELSE ty
    /\ op' = "compute_lookup_table"
    /\ pc' = "lut"
    /\ table' = <<>>
    /\ UNCHANGED <<curve, tvalue, point, critical, ret_t, ret_point>>
    /\ UNCHANGED search_vars

\* the closure of compute_lookup_table, on the next element of 0..=steps
LookupTableEntry ==
    /\ pc = "lut"
    /\ Len(table) <= steps
    /\ LET t == [type |-> tvalue_type, t |-> StepRatio(Len(table), steps), error |-> 0]
       IN  /\ tvalue' = t
           /\ t_value_to_parametric("compute_lookup_table", t)
    /\ UNCHANGED <<curve, op, steps, tvalue_type, point, critical>>

\* collect(): the iterator is exhausted
LookupTableCollect ==
    /\ pc = "lut"
    /\ Len(table) > steps
    /\ pc' = "done"
    /\ UNCHANGED <<curve, table, ret_t, ret_point>>
    /\ UNCHANGED search_vars
    /\ UNCHANGED call_vars

\* Bezier::project
Project ==
    /\ pc = "idle"
    /\ \E p \in Points, crit \in CriticalLists :
        /\ point' = p
        /\ critical' = crit
        /\ ret_t' = project(curve, p, crit)
    /\ op' = "project"
    /\ pc' = "done"
    /\ UNCHANGED <<curve, tvalue, steps, tvalue_type, table, ret_point>>
    /\ UNCHANGED search_vars

Next ==
    \/ Evaluate
    \/ EuclideanToParametric
    \/ EuclideanToParametricWithTotalLength
    \/ Bisect
    \/ Collapse
    \/ ComputeLookupTable
    \/ LookupTableEntry
    \/ LookupTableCollect
    \/ Project

Spec == Init /\ [][Next]_vars

\* the search alone, entered from its two public entry points
SearchNext ==
    \/ EuclideanToParametric
    \/ EuclideanToParametricWithTotalLength
    \/ Bisect
    \/ Collapse

SearchSpec == Init /\ [][SearchNext]_vars

\* project alone
ProjectNext == Project

ProjectSpec == Init /\ [][ProjectNext]_vars

---------------------------------------------------------------------------
(* Properties *)

InSearchCall ==
    op \in {"euclidean_to_parametric", "euclidean_to_parametric_with_total_length"}

OutOfRange(t) == t = NaN \/ t < 0 \/ t > Scale

\* C1: evaluate (through t_value_to_parametric) panics on a payload outside [0,1] under
\* every variant of TValue, returning nothing, and hands Parametric(t) with t in [0,1]
\* back as exactly t.
C1_PayloadOutsideUnitIntervalRejected ==
    (op = "evaluate" /\ pc # "idle") =>
        /\ OutOfRange(tvalue.t) => pc = "panicked"
        /\ (~OutOfRange(tvalue.t) /\ tvalue.type = "Parametric") =>
                (pc = "done" /\ ret_t = tvalue.t)

C1_Witness ==
    /\ op = "evaluate"
    /\ pc = "panicked"
    /\ tvalue.type = "EuclideanWithinError"
    /\ tvalue.t > Scale

\* C2: a total_length of 0 is rejected as a domain error: a call that no early exit
\* takes never enters the search, and never returns, with total_length = 0.
C2_ZeroTotalLengthRejected ==
    (/\ op = "euclidean_to_parametric"
     /\ pc # "idle"
     /\ total_length = 0
     /\ error > 0
     /\ ~FLt(euclidean_t, error)
     /\ ~FLt(FSub(Scale, euclidean_t), error)) => pc = "panicked"

\* C3: compute_lookup_table returns, for every steps value n (0 included) and both
\* modes, exactly n + 1 points, the first the curve's start and the last its end.
C3_LookupTableHasStepsPlusOnePoints ==
    (op = "compute_lookup_table") =>
        /\ pc # "panicked"
        /\ pc = "done" =>
            /\ Len(table) = steps + 1
            /\ table[1] = curve.start
            /\ table[Len(table)] = curve.end

\* the candidates project examines, in the order it examines them
Candidates == <<0>> \o critical \o <<Scale>>
CandidateDistance(i) ==
    distance_squared(unrestricted_parametric_evaluate(curve, Candidates[i]), point)

\* C4: project returns one of 0, the candidates, 1; none of these is strictly nearer
\* to the point; among those at the least distance it is the one examined first.
C4_ProjectReturnsFirstNearestCandidate ==
    (op = "project" /\ pc = "done") =>
        \E i \in 1..Len(Candidates) :
            /\ ret_t = Candidates[i]
            /\ \A j \in 1..Len(Candidates) : CandidateDistance(j) >= CandidateDistance(i)
            /\ \A j \in 1..(i - 1) : CandidateDistance(j) > CandidateDistance(i)

\* two different candidates tie for the least distance
C4_Witness ==
    /\ op = "project"
    /\ pc = "done"
    /\ \E i, j \in 1..Len(Candidates) :
        /\ i < j
        /\ Candidates[i] # Candidates[j]
        /\ CandidateDistance(i) = CandidateDistance(j)
        /\ \A k \in 1..Len(Candidates) : CandidateDistance(k) >= CandidateDistance(i)

\* the arc-length fraction of the point at t, measured from the start with the default
\* number of subdivisions
ArcLengthFraction(self, t) ==
    FDivOn(Scale, length(trim(self, 0, t), DEFAULT_LENGTH_SUBDIVISIONS),
                  length(self, DEFAULT_LENGTH_SUBDIVISIONS))

\* what the rounding of up to DEFAULT_LENGTH_SUBDIVISIONS chords can add to a fraction
\* measured on the grid: a deviation counts only beyond it
MeasureSlack == Frac(1, 100)

\* C5: on a curve of positive length, for a ratio in (0,1) and an error > 0 (here: at
\* least the default bound), euclidean_to_parametric returns a t whose arc-length
\* fraction is within error of ratio.
C5_ResultWithinErrorOfRatio ==
    (/\ op = "euclidean_to_parametric"
     /\ pc = "done"
     /\ total_length > 0
     /\ euclidean_t > 0 /\ euclidean_t < Scale
     /\ error >= DEFAULT_EUCLIDEAN_ERROR_BOUND) =>
        Abs(ArcLengthFraction(curve, ret_t) - euclidean_t) <= error + MeasureSlack

\* C6: every iteration of the search that does not hit the tolerance strictly narrows
\* the bracket (here: for an error > 0 and the curve's own total length).
C6_IterationNarrowsBracket ==
    [][(/\ op = "euclidean_to_parametric"
        /\ error > 0
        /\ total_length > 0
        /\ pc = "search"
        /\ pc' = "search") => (high' - low' < high - low)]_vars

BernsteinTimesDenominator(self, k, i) ==
    CASE self.handles.kind = "Linear" ->
            (4 - k) * self.start[i] + k * self.end[i]
      [] self.handles.kind = "Quadratic" ->
            (4 - k) * (4 - k) * self.start[i] + 2 * (4 - k) * k * self.handles.handle[i]
                + k * k * self.end[i]
      [] self.handles.kind = "Cubic" ->
            (4 - k) * (4 - k) * (4 - k) * self.start[i]
                + 3 * (4 - k) * (4 - k) * k * self.handles.handle_start[i]
                + 3 * (4 - k) * k * k * self.handles.handle_end[i]
                + k * k * k * self.end[i]

BernsteinDenominator(self) ==
    CASE self.handles.kind = "Linear" -> 4
      [] self.handles.kind = "Quadratic" -> 16
      [] self.handles.kind = "Cubic" -> 64

\* C8: evaluate(Parametric(0)) is the start and evaluate(Parametric(1)) the end, for
\* every degree and whatever the handles; the value at t is the Bernstein combination
\* (to within two grid units of rounding), and the two documented values at t = 0.5.
C8_EvaluateIsBernstein ==
    (op = "evaluate" /\ pc = "done" /\ tvalue.type = "Parametric") =>
        /\ tvalue.t = 0 => ret_point = curve.start
        /\ tvalue.t = Scale => ret_point = curve.end
        /\ \A k \in 0..4 : \A i \in 1..2 :
            (tvalue.t = Frac(k, 4)) =>
                Abs(BernsteinDenominator(curve) * ret_point[i]
                        - BernsteinTimesDenominator(curve, k, i))
                    <= 2 * BernsteinDenominator(curve)
        /\ (curve = QuadTest /\ tvalue.t = Frac(1, 2)) =>
                ret_point = <<(25 * CoordScale) \div 2, (25 * CoordScale) \div 4>>
        /\ (curve = CubicTest /\ tvalue.t = Frac(1, 2)) =>
                ret_point = <<(33 * CoordScale) \div 2, (77 * CoordScale) \div 8>>

C8_Witness ==
    /\ op = "evaluate"
    /\ pc = "done"
    /\ tvalue.type = "Parametric"
    /\ curve = CubicTest
    /\ tvalue.t = Frac(1, 2)
    /\ ret_point = <<(33 * CoordScale) \div 2, (77 * CoordScale) \div 8>>

\* |target - 0.5|
DistanceFromMiddle(et) == Abs(et - (Scale \div 2))

\* C9: the search measures with max(1, round(|target - 0.5| * DEFAULT_LENGTH_SUBDIVISIONS))
\* subdivisions, between 1 and half of DEFAULT_LENGTH_SUBDIVISIONS, and a target closer
\* to 0.5 never gets fewer subdivisions than a target closer to 0 or 1.
C9_SubdivisionsGrowTowardsMiddle ==
    (InSearchCall /\ pc = "search") =>
        /\ \/ subdivisions = 1
           \/ 2 * Abs(subdivisions * Scale
                        - DistanceFromMiddle(euclidean_t) * DEFAULT_LENGTH_SUBDIVISIONS) <= Scale
        /\ subdivisions >= 1
        /\ 2 * subdivisions <= DEFAULT_LENGTH_SUBDIVISIONS
        /\ \A u \in Ratios :
            DistanceFromMiddle(euclidean_t) < DistanceFromMiddle(u) =>
                subdivisions >= subdivisions_proportional_to_likely_length(u)

\* the fraction the search measures for the parametric value m in the current call
Measured(m) == current_euclidean_t(curve, m, euclidean_t, subdivisions, total_length)

\* the target lies between the fractions measured at the two ends of [lo, hi]
Brackets(lo, hi) == FLe(Measured(lo), euclidean_t) /\ FLe(euclidean_t, Measured(hi))

C10_Ordered ==
    /\ (InSearchCall /\ pc \in {"search", "done"}) =>
            (0 <= low /\ low <= mid /\ mid <= high /\ high <= Scale)
    /\ (InSearchCall /\ pc = "done") => (0 <= ret_t /\ ret_t <= Scale)

C10_Monotone ==
    (InSearchCall /\ pc = "search") => (low' >= low /\ high' <= high)

===========================================================================
